---------------------------- MODULE Spec2Model ----------------------------
(***************************************************************************)
(* Block document state machine of the editor (NotionEditor.tsx and        *)
(* TextBlock.tsx).                                                         *)
(*                                                                         *)
(* `blocks` is the React state of NotionEditor: the value every functional *)
(* updater passed to setBlocks receives as prevBlocks.  `rendered` is the  *)
(* value of `blocks` seen by the last render, which is what the closures   *)
(* of that render read: the block-delete-backward listener registered by   *)
(* the effect with dependency [blocks], the isFirstBlock and block.id      *)
(* props of each mounted TextBlock, the items of the SortableContext.      *)
(* The handlers modelled here read only the ids and the order of that      *)
(* captured array, so `rendered` keeps the sequence of its ids.  Updaters  *)
(* queued by handlers are applied to `blocks` in order; React renders (and *)
(* re-runs the effects) some time after a handler has returned, which is   *)
(* the Render step.                                                        *)
(***************************************************************************)
EXTENDS Integers, Sequences, FiniteSets, TLC

(* ---------------------------- bounds ----------------------------------- *)
\* number of ids nanoid may hand out in one session (loaded ids included)
MaxIds == 3
\* largest number of blocks in a loaded document
MaxInit == 2
\* number of setBlocks updaters React may have queued before it renders
MaxPending == 2
\* number of handler calls (editing intents) in one session
MaxSteps == 3

(* ---------------------------- values ----------------------------------- *)
\* null (lastCreatedBlockId, focus target)
Null == 0
\* id attribute of the editor's mount element (editor.options.element.id):
\* never set by this code, so never the id of a block
ElementId == 0
\* language is an optional field of a block
NoLanguage == "none"

BlockIds == 1..MaxIds
\* block types the model draws from (a sample of Block["type"])
BlockTypes == {"paragraph", "heading2"}
\* editor.getHTML() values: an empty paragraph and a paragraph with text
Contents == {"<p></p>", "<p>a</p>"}

\* editor.isEmpty: the document has no text
IsEmptyContent(c) == c \in {"", "<p></p>"}

VARIABLES
  blocks,              \* useState<Block[]>: current state (prevBlocks of the next updater)
  rendered,            \* ids of the `blocks` captured by the closures of the last render
  pending,             \* updaters applied since the last render
  nextId,              \* source of fresh ids (nanoid)
  seenIds,             \* history: every id a block of this document ever had
  lastCreatedBlockId,  \* useState<string | null>
  steps,               \* number of handlers that ran so far
  session,             \* the autosave of the open editor: title, the refs and the
                       \* timers of useAutoSave, the clock, the saves in flight
  storage,             \* the MemStorage of the server: documents, documentIdCounter
  editor,              \* the TextBlock that has the focus: the id of its block, the
                       \* document of its TipTap editor (doc) and its refs
                       \* isAddingBlock and isProcessingCommand
  last                 \* the last handler that ran: its name (op), the block id
                       \* an Enter or Backspace was for, and what it reported (out): the id it created
                       \* or the id it handed to focusBlockById, Null for none;
                       \* the prevBlocks its addBlockAfter or deleteBlock updater
                       \* was applied to (pre); whether it continues the handler
                       \* before it (chained): an addBlockAfter after one for the
                       \* same block, a backward delete of the block just added

vars ==
  <<blocks, rendered, pending, nextId, seenIds, lastCreatedBlockId, steps, editor, session,
    storage, last>>

(* ---------------------------- helpers ---------------------------------- *)
IdsOf(s) == {s[i].id : i \in 1..Len(s)}

\* blocks.map(block => block.id)
IdSeq(s) == [i \in 1..Len(s) |-> s[i].id]

\* ids of a captured array
Mounted == {rendered[i] : i \in 1..Len(rendered)}

\* findIndex over a captured array: 0-based, -1 when absent
CapturedIndex(captured, id) ==
  IF \E i \in 1..Len(captured) : captured[i] = id
  THEN (CHOOSE i \in 1..Len(captured) : captured[i] = id) - 1
  ELSE -1

\* Array.prototype.findIndex(b => b.id === id): 0-based, -1 when absent
FindIndex(s, id) ==
  IF \E i \in 1..Len(s) : s[i].id = id
  THEN (CHOOSE i \in 1..Len(s) : s[i].id = id /\ \A j \in 1..(i - 1) : s[j].id # id) - 1
  ELSE -1

\* Array.prototype.slice(from, to) with 0 <= from <= to <= length
Slice(s, from, to) == SubSeq(s, from + 1, to)

\* start index of Array.prototype.splice, clamped as the language defines
SpliceStart(s, start) ==
  IF start < 0 THEN (IF Len(s) + start < 0 THEN 0 ELSE Len(s) + start)
  ELSE IF start > Len(s) THEN Len(s) ELSE start

\* array after splice(start, 1)
SpliceRemove(s, start) ==
  LET k == SpliceStart(s, start)
  IN IF k >= Len(s) THEN s ELSE Slice(s, 0, k) \o Slice(s, k + 1, Len(s))

\* array after splice(start, 0, item)
SpliceInsert(s, start, item) ==
  LET k == SpliceStart(s, start)
  IN Slice(s, 0, k) \o <<item>> \o Slice(s, k, Len(s))

\* a generator that hands out the smallest id no current block has
nanoidReusingFreedIds ==
  CHOOSE i \in 1..(MaxIds + 1) : i \notin IdsOf(blocks) /\ \A j \in 1..(i - 1) : j \in IdsOf(blocks)

\* nanoid(): an id no block of the document has had
nanoid == nextId

NewParagraph(id) == [id |-> id, type |-> "paragraph", content |-> "<p></p>", language |-> NoLanguage]

(* ---------------------------- updaters --------------------------------- *)
\* an insertion in front of the block instead of after it
addBlockAfterInFront(prevBlocks, blockId, blockType, newBlockId) ==
  LET blockIndex == FindIndex(prevBlocks, blockId)
      newBlock == [id |-> newBlockId, type |-> blockType,
                   content |-> IF blockType = "paragraph" THEN "<p></p>" ELSE "",
                   language |-> NoLanguage]
  IN IF blockIndex = -1 THEN prevBlocks
     ELSE Slice(prevBlocks, 0, blockIndex) \o <<newBlock>>
          \o Slice(prevBlocks, blockIndex, Len(prevBlocks))

\* an insertion that does not test whether the block was found
addBlockAfterUnchecked(prevBlocks, blockId, blockType, newBlockId) ==
  LET blockIndex == FindIndex(prevBlocks, blockId)
      newBlock == [id |-> newBlockId, type |-> blockType,
                   content |-> IF blockType = "paragraph" THEN "<p></p>" ELSE "",
                   language |-> NoLanguage]
  IN Slice(prevBlocks, 0, blockIndex + 1) \o <<newBlock>>
     \o Slice(prevBlocks, blockIndex + 1, Len(prevBlocks))

\* an insertion at the end of the document
addBlockAfterAtEnd(prevBlocks, blockId, blockType, newBlockId) ==
  LET blockIndex == FindIndex(prevBlocks, blockId)
      newBlock == [id |-> newBlockId, type |-> blockType,
                   content |-> IF blockType = "paragraph" THEN "<p></p>" ELSE "",
                   language |-> NoLanguage]
  IN IF blockIndex = -1 THEN prevBlocks
     ELSE prevBlocks \o <<newBlock>>

\* the updater of addBlockAfter
addBlockAfter(prevBlocks, blockId, blockType, newBlockId) ==
  LET blockIndex == FindIndex(prevBlocks, blockId)
      newBlock == [id |-> newBlockId, type |-> blockType,
                   content |-> IF blockType = "paragraph" THEN "<p></p>" ELSE "",
                   language |-> NoLanguage]
  IN IF blockIndex = -1 THEN prevBlocks
     ELSE Slice(prevBlocks, 0, blockIndex + 1) \o <<newBlock>>
          \o Slice(prevBlocks, blockIndex + 1, Len(prevBlocks))

\* a deletion that drops the block and everything after it
deleteBlockTruncating(prevBlocks, blockId) ==
  IF Len(prevBlocks) <= 1 THEN prevBlocks
  ELSE IF FindIndex(prevBlocks, blockId) = -1 THEN prevBlocks
  ELSE Slice(prevBlocks, 0, FindIndex(prevBlocks, blockId))

\* the updater of deleteBlock
deleteBlock(prevBlocks, blockId) ==
  IF Len(prevBlocks) <= 1 THEN prevBlocks
  ELSE SelectSeq(prevBlocks, LAMBDA b : b.id # blockId)

\* an update that merges the fields into every block
updateBlockEveryBlock(prevBlocks, blockId, updatedData) ==
  [i \in 1..Len(prevBlocks) |->
     [f \in DOMAIN prevBlocks[i] |->
        IF f \in DOMAIN updatedData THEN updatedData[f] ELSE prevBlocks[i][f]]]

\* the updater of updateBlock; updatedData is a partial block
updateBlock(prevBlocks, blockId, updatedData) ==
  [i \in 1..Len(prevBlocks) |->
     IF prevBlocks[i].id = blockId
     THEN [f \in DOMAIN prevBlocks[i] |->
             IF f \in DOMAIN updatedData THEN updatedData[f] ELSE prevBlocks[i][f]]
     ELSE prevBlocks[i]]

\* a move that inserts at the target index before it removes the block
moveBlockToPositionInsertFirst(prevBlocks, blockId, targetPosition) ==
  LET blockIndex == FindIndex(prevBlocks, blockId)
  IN IF blockIndex = -1 \/ targetPosition < 0 \/ targetPosition >= Len(prevBlocks)
     THEN prevBlocks
     ELSE IF blockIndex = targetPosition THEN prevBlocks
     ELSE SpliceRemove(SpliceInsert(prevBlocks, targetPosition, prevBlocks[blockIndex + 1]),
                       IF blockIndex < targetPosition THEN blockIndex ELSE blockIndex + 1)

\* a move without the test of the index and the target position
moveBlockToPositionUnchecked(prevBlocks, blockId, targetPosition) ==
  LET blockIndex == FindIndex(prevBlocks, blockId)
      moved == prevBlocks[SpliceStart(prevBlocks, blockIndex) + 1]
  IN SpliceInsert(SpliceRemove(prevBlocks, blockIndex), targetPosition, moved)

\* the updater of moveBlockToPosition
moveBlockToPosition(prevBlocks, blockId, targetPosition) ==
  LET blockIndex == FindIndex(prevBlocks, blockId)
  IN IF blockIndex = -1 \/ targetPosition < 0 \/ targetPosition >= Len(prevBlocks)
     THEN prevBlocks
     ELSE IF blockIndex = targetPosition THEN prevBlocks
     ELSE SpliceInsert(SpliceRemove(prevBlocks, blockIndex), targetPosition,
                       prevBlocks[blockIndex + 1])

\* a move that writes the element over the one at the target index
arrayMoveOverwriting(array, from, to) ==
  IF from < 0 \/ to < 0 THEN array
  ELSE [i \in 1..Len(array) |-> IF i = to + 1 THEN array[from + 1] ELSE array[i]]

\* an exchange of the two elements
arrayMoveSwapping(array, from, to) ==
  IF from < 0 \/ to < 0 THEN array
  ELSE [i \in 1..Len(array) |->
          IF i = from + 1 THEN array[to + 1]
          ELSE IF i = to + 1 THEN array[from + 1] ELSE array[i]]

\* arrayMove of @dnd-kit/sortable: the insertion index is computed before the removal
arrayMove(array, from, to) ==
  LET target == IF to < 0 THEN Len(array) + to ELSE to
      moved == array[SpliceStart(array, from) + 1]
  IN SpliceInsert(SpliceRemove(array, from), target, moved)

\* the updater of handleDragEnd
handleDragEnd(prevBlocks, activeId, overId) ==
  arrayMove(prevBlocks, FindIndex(prevBlocks, activeId), FindIndex(prevBlocks, overId))

\* a handler that hands the first block to focusBlockById
handleBlockDeleteBackwardFocusFirst(captured, prevBlocks, blockId) ==
  LET blockIndex == CapturedIndex(captured, blockId)
  IN IF blockIndex <= 0
     THEN [blocks |-> prevBlocks, focus |-> Null]
     ELSE [blocks |-> deleteBlock(prevBlocks, blockId),
           focus |-> captured[1]]

\* handleBlockDeleteBackward: the index test and the previous block are read
\* from the `blocks` the listener closed over, the deletion is an updater
handleBlockDeleteBackward(captured, prevBlocks, blockId) ==
  LET blockIndex == CapturedIndex(captured, blockId)
  IN IF blockIndex <= 0
     THEN [blocks |-> prevBlocks, focus |-> Null]
     ELSE [blocks |-> deleteBlock(prevBlocks, blockId),
           focus |-> captured[blockIndex]]

(* ---------------------------- initial state ---------------------------- *)
\* documents a session can be opened with: saved by an earlier session, so
\* the ids are distinct; ids are named 1..n in document order.  The loaded
\* blocks are paragraphs, with or without text.
InitialContents ==
  UNION {[1..n -> [id : BlockIds, type : {"paragraph"}, content : Contents, language : {NoLanguage}]]
         : n \in 0..MaxInit}

LoadableContents == {c \in InitialContents : \A i \in 1..Len(c) : c[i].id = i}

\* no TextBlock has the focus
NoEditor == [blockId |-> Null]
\* no editor session is open; no server is looked at
NoSession == [mounted |-> FALSE]
NoStorage == [documentIdCounter |-> Null]

NoOp == [op |-> "init", blockId |-> Null, out |-> Null, pre |-> <<>>, chained |-> FALSE]

\* what Editor has when it renders NotionEditor: a document with a content,
\* saved by an earlier session, or one without
OpenedDocuments ==
  {[title |-> "Untitled"]}
  \cup {[title |-> "Untitled", content |-> c] : c \in LoadableContents}

\* the initialContent Editor passes: document?.content || []
InitialContentOf(document) ==
  IF "content" \in DOMAIN document THEN document.content ELSE <<>>

\* an initializer without the default paragraph
initialBlocksNoDefault(initialContent, freshId) == initialContent

\* an initializer that adds the default paragraph to any content
initialBlocksAlwaysDefault(initialContent, freshId) ==
  Append(initialContent, NewParagraph(freshId))

\* the initializer of the blocks state
initialBlocks(initialContent, freshId) ==
  IF Len(initialContent) > 0 THEN initialContent ELSE <<NewParagraph(freshId)>>

\* `last` of the initial state has in pre the initialContent of the session
Init ==
  /\ \E document \in OpenedDocuments :
       LET initialContent == InitialContentOf(document)
       IN /\ blocks = initialBlocks(initialContent, Len(initialContent) + 1)
          /\ nextId = IF Len(initialContent) > 0 THEN Len(initialContent) + 1 ELSE 2
          /\ last = [NoOp EXCEPT !.pre = initialContent]
  /\ rendered = IdSeq(blocks)
  /\ pending = 0
  /\ seenIds = IdsOf(blocks)
  /\ lastCreatedBlockId = Null
  /\ steps = 0
  /\ editor = NoEditor
  /\ session = NoSession
  /\ storage = NoStorage

(* ---------------------------- actions ---------------------------------- *)
\* a handler passed an updater to setBlocks: its result is the new state.  An
\* updater that returns its argument changes nothing and causes no render.
Commit(newBlocks) ==
  /\ steps < MaxSteps
  /\ steps' = steps + 1
  /\ newBlocks # blocks => pending < MaxPending
  /\ blocks' = newBlocks
  /\ pending' = IF newBlocks # blocks THEN pending + 1 ELSE pending
  /\ seenIds' = seenIds \cup IdsOf(newBlocks)
  /\ rendered' = rendered
  /\ editor' = editor
  /\ UNCHANGED <<session, storage>>

\* React renders NotionEditor and re-runs the effects that depend on blocks
Render ==
  /\ pending > 0
  /\ rendered' = IdSeq(blocks)
  /\ pending' = 0
  /\ UNCHANGED <<blocks, nextId, seenIds, lastCreatedBlockId, steps, editor, last, session, storage>>

\* addBlockAfter, called by a mounted TextBlock (Enter) or by "Add a block"
AddBlockAfter(blockId, blockType) ==
  /\ blockId \in Mounted
  /\ nextId <= MaxIds
  /\ LET newBlockId == nanoid
     IN /\ Commit(addBlockAfter(blocks, blockId, blockType, newBlockId))
        /\ lastCreatedBlockId' = newBlockId
        /\ nextId' = nextId + 1
        /\ last' = [op |-> "addBlockAfter", blockId |-> blockId, out |-> newBlockId,
                    pre |-> blocks,
                    chained |-> /\ last.op = "addBlockAfter"
                                /\ last.blockId = blockId
                                /\ blockId \in IdsOf(last.pre)]

\* one Backspace key press in the mounted block x.  The keymap of the editor
\* extension runs first and dispatches block-delete-backward with the id of the
\* editor's mount element; then handleKeyDown of TextBlock dispatches it with
\* block.id.  Both test the isFirstBlock of the last render and editor.isEmpty;
\* the editor of a block holds the content last passed to updateBlock, and the
\* editor of a block that is mounted but already deleted may hold anything.
Backspace(x) ==
  /\ x \in Mounted
  /\ LET isEmpty == x \in IdsOf(blocks) => IsEmptyContent(blocks[FindIndex(blocks, x) + 1].content)
         isFirstBlock == CapturedIndex(rendered, x) = 0
         fromExtension == IF isFirstBlock
                          THEN [blocks |-> blocks, focus |-> Null]
                          ELSE handleBlockDeleteBackward(rendered, blocks, ElementId)
         fromTextBlock == IF isFirstBlock
                          THEN fromExtension
                          ELSE handleBlockDeleteBackward(rendered, fromExtension.blocks, x)
     IN /\ isEmpty
        /\ Commit(fromTextBlock.blocks)
        /\ last' = [op |-> "blockDeleteBackward", blockId |-> x, out |-> fromTextBlock.focus,
                    pre |-> IF fromTextBlock.focus # Null THEN blocks ELSE <<>>,
                    chained |-> /\ last.op = "addBlockAfter"
                                /\ last.out = x
                                /\ last.blockId \in IdsOf(last.pre)]
  /\ UNCHANGED <<nextId, lastCreatedBlockId>>

\* updateBlock, called by a mounted TextBlock: onUpdate of its editor (content)
\* or a type change
UpdateBlock(blockId, updatedData) ==
  /\ blockId \in Mounted
  /\ Commit(updateBlock(blocks, blockId, updatedData))
  /\ last' = [op |-> "updateBlock", blockId |-> Null, out |-> Null, pre |-> <<>>, chained |-> FALSE]
  /\ UNCHANGED <<nextId, lastCreatedBlockId>>

\* moveBlockToPosition
MoveBlockToPosition(blockId, targetPosition) ==
  /\ Commit(moveBlockToPosition(blocks, blockId, targetPosition))
  /\ last' = [op |-> "moveBlockToPosition", blockId |-> Null, out |-> Null, pre |-> <<>>, chained |-> FALSE]
  /\ UNCHANGED <<nextId, lastCreatedBlockId>>

\* handleDragEnd: active and over are items of the rendered SortableContext
HandleDragEnd(activeId, overId) ==
  /\ activeId \in Mounted
  /\ overId \in Mounted
  /\ activeId # overId
  /\ Commit(handleDragEnd(blocks, activeId, overId))
  /\ last' = [op |-> "handleDragEnd", blockId |-> Null, out |-> Null, pre |-> <<>>, chained |-> FALSE]
  /\ UNCHANGED <<nextId, lastCreatedBlockId>>

\* the timer of focusBlockById(lastCreatedBlockId), started by the effect that
\* follows the render: with a registered ref it focuses the editor and resets
\* lastCreatedBlockId
FocusBlockById ==
  /\ lastCreatedBlockId # Null
  /\ lastCreatedBlockId \in Mounted
  /\ lastCreatedBlockId' = Null
  /\ UNCHANGED <<blocks, rendered, pending, nextId, seenIds, steps, editor, last, session, storage>>

\* the partial blocks the editor's onUpdate hands to updateBlock
UpdatedData == {[content |-> c] : c \in Contents}

Next ==
  \/ Render
  \/ \E blockId \in BlockIds, blockType \in BlockTypes : AddBlockAfter(blockId, blockType)
  \/ \E x \in BlockIds : Backspace(x)
  \/ \E blockId \in BlockIds, updatedData \in UpdatedData : UpdateBlock(blockId, updatedData)
  \/ \E blockId \in BlockIds, targetPosition \in -1..MaxIds :
       MoveBlockToPosition(blockId, targetPosition)
  \/ \E activeId \in BlockIds, overId \in BlockIds : HandleDragEnd(activeId, overId)
  \/ FocusBlockById

Spec == Init /\ [][Next]_vars

(* ------------------- the updaters on any document ---------------------- *)
BlockValues == [id : BlockIds, type : BlockTypes, content : Contents, language : {NoLanguage}]

\* the documents prevBlocks can be: at least one block, distinct ids, any order
Documents ==
  {d \in UNION {[1..n -> BlockValues] : n \in 1..MaxIds} :
     \A i, j \in 1..Len(d) : i # j => d[i].id # d[j].id}

\* the partial blocks the callers of updateBlock pass
PartialBlocks ==
  {[content |-> c] : c \in Contents} \cup {[type |-> t] : t \in BlockTypes}
  \cup {[type |-> t, content |-> c] : t \in BlockTypes, c \in Contents}

InitUpdaters ==
  \E d \in Documents :
    /\ blocks = d
    /\ rendered = IdSeq(d)
    /\ pending = 0
    /\ nextId = MaxIds + 1
    /\ seenIds = IdsOf(d)
    /\ lastCreatedBlockId = Null
    /\ steps = 0
    /\ editor = NoEditor
    /\ session = NoSession
    /\ storage = NoStorage
    /\ last = NoOp

\* one application of an updater to the document
Applied(newBlocks) ==
  /\ last.op = "init"
  /\ blocks' = newBlocks
  /\ UNCHANGED <<rendered, pending, nextId, seenIds, lastCreatedBlockId, steps, editor, session, storage>>

ApplyUpdateBlock(blockId, updatedData) ==
  /\ Applied(updateBlock(blocks, blockId, updatedData))
  /\ last' = [op |-> "updateBlock", blockId |-> blockId, out |-> Null, pre |-> blocks,
              chained |-> FALSE]

ApplyMoveBlockToPosition(blockId, targetPosition) ==
  /\ Applied(moveBlockToPosition(blocks, blockId, targetPosition))
  /\ last' = [op |-> "moveBlockToPosition", blockId |-> blockId, out |-> targetPosition,
              pre |-> blocks, chained |-> FALSE]

\* handleDragEnd with an over target other than the dragged item
ApplyHandleDragEnd(activeId, overId) ==
  /\ activeId # overId
  /\ Applied(handleDragEnd(blocks, activeId, overId))
  /\ last' = [op |-> "handleDragEnd", blockId |-> activeId, out |-> overId,
              pre |-> blocks, chained |-> FALSE]

NextUpdaters ==
  \/ \E blockId \in BlockIds, updatedData \in PartialBlocks :
       ApplyUpdateBlock(blockId, updatedData)
  \/ \E blockId \in BlockIds, targetPosition \in -1..(MaxIds + 1) :
       ApplyMoveBlockToPosition(blockId, targetPosition)
  \/ \E activeId \in BlockIds, overId \in BlockIds : ApplyHandleDragEnd(activeId, overId)

SpecUpdaters == InitUpdaters /\ [][NextUpdaters]_vars

(* ------------------------- the TextBlock editor ------------------------ *)
\* A text is a sequence of characters.  "<b>" and "</b>" stand for the
\* characters of a tag the user typed as text.
Whitespace == {" ", "\n"}
TagTokens == {"<b>", "</b>"}

\* the texts the model draws from: none, a word, a command, a longer word that
\* starts like a command, a command in upper case with a space after it, a
\* command with a space before it, a word between typed tags
Texts ==
  {<<>>, <<"a">>, <<"/", "h", "2">>, <<"/", "h", "2", "x">>,
   <<"/", "H", "2", " ">>, <<" ", "/", "h", "2">>, <<"<b>", "a", "</b>">>}

\* String.prototype.trim
RECURSIVE TrimStart(_)
TrimStart(t) == IF Len(t) > 0 /\ t[1] \in Whitespace THEN TrimStart(Tail(t)) ELSE t

RECURSIVE TrimEnd(_)
TrimEnd(t) ==
  IF Len(t) > 0 /\ t[Len(t)] \in Whitespace THEN TrimEnd(SubSeq(t, 1, Len(t) - 1)) ELSE t

Trim(t) == TrimEnd(TrimStart(t))

\* String.prototype.toLowerCase
ToLowerCase(t) == [i \in 1..Len(t) |-> IF t[i] = "H" THEN "h" ELSE t[i]]

\* text.startsWith('/')
StartsWithSlash(t) == Len(t) > 0 /\ t[1] = "/"

\* blockType stays null
NoCommand == "null"

\* a switch that takes every text that starts with /h2 for the command
SlashCommandByPrefix(command) ==
  IF Len(command) >= 3 /\ SubSeq(command, 1, 3) = <<"/", "h", "2">>
  THEN "heading2"
  ELSE NoCommand

\* the switch over the command text
SlashCommand(command) ==
  CASE command = <<"/", "t", "i", "t", "l", "e">> -> "title"
    [] command = <<"/", "h", "1">> -> "title"
    [] command = <<"/", "h", "e", "a", "d", "i", "n", "g">> -> "heading2"
    [] command = <<"/", "h", "2">> -> "heading2"
    [] command = <<"/", "s", "u", "b", "h", "e", "a", "d", "i", "n", "g">> -> "heading3"
    [] command = <<"/", "h", "3">> -> "heading3"
    [] command = <<"/", "b", "o", "d", "y">> -> "paragraph"
    [] command = <<"/", "m", "o", "n", "o", "s", "t", "y", "l", "e", "d">> -> "code"
    [] command = <<"/", "c", "o", "d", "e">> -> "code"
    [] command = <<"/", "b", "u", "l", "l", "e", "t", "e", "d", "l", "i", "s", "t">> -> "bulletList"
    [] command = <<"/", "n", "u", "m", "b", "e", "r", "e", "d", "l", "i", "s", "t">> -> "orderedList"
    [] OTHER -> NoCommand

\* the block types of the format menu and of the slash commands
FormatTypes == {"paragraph", "title", "heading2", "heading3", "code", "bulletList", "orderedList"}

\* the types the format menu offers (both FormatDropdown components)
formatOptions ==
  {"title", "heading1", "heading2", "heading3", "paragraph", "markdown",
   "bulletList", "numberedList", "dashedList", "code"}

\* the languages of the language dropdown of a code block
Languages == {"javascript"}

\* The document of an editor is a sequence of top-level nodes.  A paragraph or a
\* heading has one line, a list one line for each item, a code block its lines.
Node(type, level, lines) ==
  [type |-> type, level |-> level, lines |-> lines, language |-> NoLanguage]

IsList(n) == n.type \in {"bulletList", "orderedList"}

\* the document after clearContent(): one empty paragraph
ClearedDoc == <<Node("paragraph", 0, << <<>> >>)>>

RECURSIVE JoinLines(_, _)
JoinLines(lines, sep) ==
  IF Len(lines) = 0 THEN <<>>
  ELSE IF Len(lines) = 1 THEN lines[1]
  ELSE lines[1] \o sep \o JoinLines(Tail(lines), sep)

BlockSeparator == <<"\n", "\n">>

\* the textblocks of a node: a code block is one textblock
NodeTextblocks(n) == IF n.type = "codeBlock" THEN <<JoinLines(n.lines, <<"\n">>)>> ELSE n.lines

RECURSIVE Textblocks(_)
Textblocks(doc) ==
  IF Len(doc) = 0 THEN <<>> ELSE NodeTextblocks(doc[1]) \o Textblocks(Tail(doc))

\* the text of a list as newer TipTap releases give it: a separator in front of
\* every list item and of the paragraph in it
RECURSIVE ItemsText(_)
ItemsText(lines) ==
  IF Len(lines) = 0 THEN <<>>
  ELSE BlockSeparator \o BlockSeparator \o lines[1] \o ItemsText(Tail(lines))

RECURSIVE NodesText(_, _)
NodesText(doc, first) ==
  IF Len(doc) = 0 THEN <<>>
  ELSE (IF first THEN <<>> ELSE BlockSeparator)
       \o (IF IsList(doc[1]) THEN ItemsText(doc[1].lines) ELSE NodeTextblocks(doc[1])[1])
       \o NodesText(Tail(doc), FALSE)

\* editor.getText().  TipTap puts the block separator between the textblocks
\* (separatorPerBlock = FALSE) or, in newer releases, in front of every block
\* node after the start of the document (separatorPerBlock = TRUE); the source
\* does not pin the release.
getText(doc, separatorPerBlock) ==
  IF separatorPerBlock THEN NodesText(doc, TRUE)
  ELSE JoinLines(Textblocks(doc), BlockSeparator)

\* the characters of a text as getHTML() writes them
Escape(c) ==
  CASE c = "<b>" -> "&lt;b&gt;"
    [] c = "</b>" -> "&lt;/b&gt;"
    [] OTHER -> c

RECURSIVE TextHTML(_)
TextHTML(t) == IF Len(t) = 0 THEN "" ELSE Escape(t[1]) \o TextHTML(Tail(t))

RECURSIVE ItemsHTML(_)
ItemsHTML(lines) ==
  IF Len(lines) = 0 THEN ""
  ELSE "<li><p>" \o TextHTML(lines[1]) \o "</p></li>" \o ItemsHTML(Tail(lines))

\* the class attribute of the code element of a code block
LanguageClass(language) ==
  IF language = NoLanguage THEN "" ELSE " class=\"language-" \o language \o "\""

NodeHTML(n) ==
  CASE n.type = "paragraph" -> "<p>" \o TextHTML(n.lines[1]) \o "</p>"
    [] n.type = "heading" /\ n.level = 1 -> "<h1>" \o TextHTML(n.lines[1]) \o "</h1>"
    [] n.type = "heading" /\ n.level = 2 -> "<h2>" \o TextHTML(n.lines[1]) \o "</h2>"
    [] n.type = "heading" /\ n.level = 3 -> "<h3>" \o TextHTML(n.lines[1]) \o "</h3>"
    [] n.type = "bulletList" -> "<ul>" \o ItemsHTML(n.lines) \o "</ul>"
    [] n.type = "orderedList" -> "<ol>" \o ItemsHTML(n.lines) \o "</ol>"
    [] n.type = "codeBlock" ->
         "<pre><code" \o LanguageClass(n.language) \o ">"
           \o TextHTML(JoinLines(n.lines, <<"\n">>)) \o "</code></pre>"

\* editor.getHTML() (the marks of a text are not part of the model)
RECURSIVE getHTML(_)
getHTML(doc) == IF Len(doc) = 0 THEN "" ELSE NodeHTML(doc[1]) \o getHTML(Tail(doc))

\* insertContent(text) with a string: TipTap parses the string as HTML, so the
\* characters of a tag become markup and are no longer text
ParsedText(t) == SelectSeq(t, LAMBDA c : c \notin TagTokens)

\* the text put into a list item as a JSON text node, as it is
LiteralText(t) == t

\* the document after clearContent() and the commands of the switch over the
\* type, with currentText inserted
FormattedDoc(type, currentText) ==
  CASE type = "title" -> <<Node("heading", 1, <<ParsedText(currentText)>>)>>
    [] type = "heading2" -> <<Node("heading", 2, <<ParsedText(currentText)>>)>>
    [] type = "heading3" -> <<Node("heading", 3, <<ParsedText(currentText)>>)>>
    [] type = "bulletList" -> <<Node("bulletList", 0, <<LiteralText(currentText)>>)>>
    [] type = "orderedList" -> <<Node("orderedList", 0, <<LiteralText(currentText)>>)>>
    [] type = "code" -> <<Node("codeBlock", 0, <<ParsedText(currentText)>>)>>
    [] OTHER -> <<Node("paragraph", 0, <<ParsedText(currentText)>>)>>

\* a shortcut that dispatches editor-enter-key in a list as well
KeyboardHandlerEnterDispatching(doc, isDoubleEnter) ==
  [doc |-> doc, dispatched |-> TRUE]

\* the Enter shortcut of KeyboardHandler with the cursor at the end of the
\* document, and the default handling of the key where the shortcut returns
\* false: the new document and whether editor-enter-key was dispatched.  An
\* empty list item is lifted out of the list; without isDoubleEnter setParagraph
\* follows, which finds the lifted item a paragraph already.
KeyboardHandlerEnter(doc, isDoubleEnter) ==
  LET n == doc[Len(doc)]
      front == SubSeq(doc, 1, Len(doc) - 1)
      isEmpty == Len(n.lines[Len(n.lines)]) = 0
      lifted == (IF Len(n.lines) > 1
                 THEN front \o <<[n EXCEPT !.lines = SubSeq(n.lines, 1, Len(n.lines) - 1)]>>
                 ELSE front)
                \o <<Node("paragraph", 0, << <<>> >>)>>
  IN IF n.type = "codeBlock"
     THEN [doc |-> front \o <<[n EXCEPT !.lines = Append(n.lines, <<>>)]>>, dispatched |-> FALSE]
     ELSE IF IsList(n)
     THEN IF isEmpty
          THEN [doc |-> lifted, dispatched |-> FALSE]
          ELSE [doc |-> front \o <<[n EXCEPT !.lines = Append(n.lines, <<>>)]>>,
                dispatched |-> FALSE]
     ELSE [doc |-> doc, dispatched |-> TRUE]

\* a listener without the isAddingBlock test
handleEditorEnterKeyEveryEvent(ed, block) ==
  /\ ~ed.isProcessingCommand
  /\ block.type # "code"

\* handleEditorEnterKey in the TextBlock whose editor has the focus: whether it
\* calls addBlockAfter(block.id, "paragraph")
handleEditorEnterKey(ed, block) ==
  /\ ~ed.isAddingBlock
  /\ ~ed.isProcessingCommand
  /\ block.type # "code"

\* a listener that takes every editor-enter-key event for its own
isThisEditorAnyEditor(blockId, eventEditorId, focusedId) == TRUE

\* isThisEditor of handleEditorEnterKey in the TextBlock of blockId: its
\* editorId is `editor-${block.id}`, the id it gave the dom of its view; the
\* editorId of the event is the id of the mount element of the editor that
\* had the key; editor.isFocused holds in the TextBlock that has the focus
isThisEditor(blockId, eventEditorId, focusedId) ==
  blockId = eventEditorId \/ blockId = focusedId

\* the refs of a TextBlock that has handled no key
IdleEditor == [isAddingBlock |-> FALSE, isProcessingCommand |-> FALSE]

\* addBlockAfter called by each of these TextBlocks in turn
RECURSIVE AddAfterEach(_, _, _)
AddAfterEach(prevBlocks, blockIds, freshId) ==
  IF Len(blockIds) = 0
  THEN prevBlocks
  ELSE AddAfterEach(addBlockAfter(prevBlocks, Head(blockIds), "paragraph", freshId),
                    Tail(blockIds), freshId + 1)

\* the Enter branch of handleKeyDown: the type of a recognized slash command
handleKeyDown(doc, separatorPerBlock) ==
  LET text == getText(doc, separatorPerBlock)
  IN IF StartsWithSlash(text) THEN SlashCommand(ToLowerCase(Trim(text))) ELSE NoCommand

\* handleFormatSelect: the new document of the editor
handleFormatSelect(doc, separatorPerBlock, type) ==
  FormattedDoc(type, Trim(getText(doc, separatorPerBlock)))

\* the type the block of a TextBlock has when its editor shows this node
BlockTypeOf(n) ==
  CASE n.type = "heading" /\ n.level = 1 -> "title"
    [] n.type = "heading" /\ n.level = 2 -> "heading2"
    [] n.type = "heading" /\ n.level = 3 -> "heading3"
    [] n.type = "codeBlock" -> "code"
    [] OTHER -> n.type

\* the documents an editor starts with: a paragraph, a heading or a code block
\* with one of the texts, a list whose last item is one of the texts
EditorDocs ==
  {<<Node("paragraph", 0, <<t>>)>> : t \in Texts}
  \cup {<<Node("heading", 2, <<t>>)>> : t \in Texts}
  \cup {<<Node("codeBlock", 0, <<t>>)>> : t \in Texts}
  \cup {<<Node(l, 0, <<t>>)>> : l \in {"bulletList", "orderedList"}, t \in Texts}
  \cup {<<Node(l, 0, <<<<"a">>, t>>)>> : l \in {"bulletList", "orderedList"}, t \in Texts}

\* a block next to the one that has the focus
Neighbour(id) == [id |-> id, type |-> "paragraph", content |-> "<p>a</p>", language |-> NoLanguage]

\* a session with the focus in one TextBlock: its block has the content of its
\* editor, and there may be a block before it and a block after it
InitKeys ==
  \E doc \in EditorDocs, before \in 0..1, after \in 0..1, separatorPerBlock \in BOOLEAN :
    LET focused == [id |-> before + 1, type |-> BlockTypeOf(doc[1]),
                    content |-> getHTML(doc), language |-> NoLanguage]
    IN /\ before + after < MaxIds
       /\ blocks = (IF before = 1 THEN <<Neighbour(1)>> ELSE <<>>) \o <<focused>>
                   \o (IF after = 1 THEN <<Neighbour(before + 2)>> ELSE <<>>)
       /\ rendered = IdSeq(blocks)
       /\ pending = 0
       /\ nextId = before + after + 2
       /\ seenIds = IdsOf(blocks)
       /\ lastCreatedBlockId = Null
       /\ steps = 0
       /\ editor = [blockId |-> before + 1, doc |-> doc, separatorPerBlock |-> separatorPerBlock,
                    isAddingBlock |-> FALSE, isProcessingCommand |-> FALSE]
       /\ session = NoSession
       /\ storage = NoStorage
       /\ last = NoOp

\* the handlers of a key or of a menu choice have run and the component has
\* rendered their result
Edited(newBlocks) ==
  /\ steps < MaxSteps
  /\ steps' = steps + 1
  /\ blocks' = newBlocks
  /\ rendered' = IdSeq(newBlocks)
  /\ seenIds' = seenIds \cup IdsOf(newBlocks)
  /\ pending' = pending
  /\ UNCHANGED <<session, storage>>

\* Enter in the editor that has the focus.  The keydown listener of the editor
\* view is on the element that has the focus, so the Enter shortcut of
\* KeyboardHandler and the editor-enter-key listeners run before the event
\* reaches handleKeyDown of the div around the editor.  The event is dispatched
\* on window, where every mounted TextBlock has its listener; `handling` are
\* the TextBlocks whose listener calls addBlockAfter, in the order of the
\* listeners.  Every change of the document of the editor calls onUpdate, which
\* stores getHTML() in the block.
PressEnter(isDoubleEnter) ==
  /\ editor.blockId \in IdsOf(blocks)
  /\ LET block == blocks[FindIndex(blocks, editor.blockId) + 1]
         key == KeyboardHandlerEnter(editor.doc, isDoubleEnter)
         handling ==
           SelectSeq(rendered,
                     LAMBDA id :
                       /\ key.dispatched
                       /\ isThisEditor(id, ElementId, editor.blockId)
                       /\ handleEditorEnterKey(IF id = editor.blockId THEN editor ELSE IdleEditor,
                                               blocks[FindIndex(blocks, id) + 1]))
         adds == Len(handling) > 0
         focusedAdds == \E i \in 1..Len(handling) : handling[i] = block.id
         blockType == handleKeyDown(key.doc, editor.separatorPerBlock)
         newDoc == IF blockType # NoCommand THEN FormattedDoc(blockType, <<>>) ELSE key.doc
         edited == IF key.doc # editor.doc
                   THEN updateBlock(blocks, block.id, [content |-> getHTML(key.doc)])
                   ELSE blocks
         added == AddAfterEach(edited, handling, nanoid)
         converted == IF blockType # NoCommand
                      THEN updateBlock(updateBlock(added, block.id, [type |-> blockType]),
                                       block.id, [content |-> getHTML(newDoc)])
                      ELSE added
     IN /\ adds => nextId <= MaxIds
        /\ Edited(converted)
        /\ nextId' = nextId + Len(handling)
        /\ lastCreatedBlockId' = IF adds THEN nextId + Len(handling) - 1 ELSE lastCreatedBlockId
        /\ editor' = [editor EXCEPT !.doc = newDoc,
                                    !.isAddingBlock = @ \/ focusedAdds,
                                    !.isProcessingCommand = @ \/ blockType # NoCommand]
        /\ last' = [op |-> "pressEnter", blockId |-> block.id,
                    out |-> IF adds THEN nanoid ELSE Null, pre |-> blocks,
                    chained |-> last.op = "pressEnter" /\ last.ignored,
                    ignored |-> key.dispatched /\ editor.isAddingBlock,
                    doc |-> editor.doc, arg |-> blockType]

\* a choice in the format menu of the TextBlock that has the focus
FormatSelect(type) ==
  /\ editor.blockId \in IdsOf(blocks)
  /\ LET newDoc == handleFormatSelect(editor.doc, editor.separatorPerBlock, type)
     IN /\ Edited(updateBlock(updateBlock(blocks, editor.blockId, [type |-> type]),
                              editor.blockId, [content |-> getHTML(newDoc)]))
        /\ editor' = [editor EXCEPT !.doc = newDoc]
        /\ last' = [op |-> "formatSelect", blockId |-> editor.blockId, out |-> Null,
                    pre |-> blocks, chained |-> FALSE, doc |-> editor.doc, arg |-> type]
        /\ UNCHANGED <<nextId, lastCreatedBlockId>>

\* updateAttributes('codeBlock', { language }): the code block with the cursor
updateAttributes(doc, language) ==
  [i \in 1..Len(doc) |->
     IF i = Len(doc) /\ doc[i].type = "codeBlock"
     THEN [doc[i] EXCEPT !.language = language]
     ELSE doc[i]]

\* a choice in the language dropdown, which a TextBlock shows for a block of
\* type code
HandleDropdownChange(v) ==
  /\ editor.blockId \in IdsOf(blocks)
  /\ blocks[FindIndex(blocks, editor.blockId) + 1].type = "code"
  /\ LET newDoc == updateAttributes(editor.doc, v)
         chosen == updateBlock(blocks, editor.blockId, [language |-> v])
     IN /\ Edited(IF newDoc # editor.doc
                  THEN updateBlock(chosen, editor.blockId, [content |-> getHTML(newDoc)])
                  ELSE chosen)
        /\ editor' = [editor EXCEPT !.doc = newDoc]
        /\ last' = [op |-> "dropdownChange", blockId |-> editor.blockId, out |-> Null,
                    pre |-> blocks, chained |-> FALSE, doc |-> editor.doc, arg |-> v]
        /\ UNCHANGED <<nextId, lastCreatedBlockId>>

\* the timer that resets isAddingBlock
AddingBlockTimeout ==
  /\ editor.isAddingBlock
  /\ editor' = [editor EXCEPT !.isAddingBlock = FALSE]
  /\ UNCHANGED <<blocks, rendered, pending, nextId, seenIds, lastCreatedBlockId, steps, last, session, storage>>

\* the timers that reset isProcessingCommand
ProcessingCommandTimeout ==
  /\ editor.isProcessingCommand
  /\ editor' = [editor EXCEPT !.isProcessingCommand = FALSE]
  /\ UNCHANGED <<blocks, rendered, pending, nextId, seenIds, lastCreatedBlockId, steps, last, session, storage>>

NextKeys ==
  \/ \E isDoubleEnter \in BOOLEAN : PressEnter(isDoubleEnter)
  \/ \E type \in FormatTypes \cup formatOptions : FormatSelect(type)
  \/ \E v \in Languages : HandleDropdownChange(v)
  \/ AddingBlockTimeout
  \/ ProcessingCommandTimeout

SpecKeys == InitKeys /\ [][NextKeys]_vars

(* ---------------------------- useAutoSave ------------------------------ *)
(* One open editor: NotionEditor calls useAutoSave({ title, content:        *)
(* blocks }, data => onSave(data.title, data.content), 3000) in every       *)
(* render.  The object and the callback are new in every render, so the     *)
(* effect of the hook runs again after every render: first the cleanup of   *)
(* the effect of the render before, then its body.  Time is counted in      *)
(* ticks of 500 ms; a timer fires in the tick it is due.                    *)

\* the clock stops here
MaxTime == 7

\* 500 ms, the delay of the inner setTimeout that resets isSaving
SavingMs == 1
\* the delays of the hook: its default of 2000 ms and the 3000 ms NotionEditor passes
DelayValues == {4, 6}

Titles == {"Untitled", "T"}

\* the data NotionEditor passes to the hook
Snapshot(title, content) == [title |-> title, content |-> content]

\* JSON.stringify of a block: a key whose value is undefined is left out
BlockJSON(b) ==
  "{\"id\":\"" \o ToString(b.id) \o "\",\"type\":\"" \o b.type
    \o "\",\"content\":\"" \o b.content \o "\""
    \o (IF b.language = NoLanguage THEN "" ELSE ",\"language\":\"" \o b.language \o "\"")
    \o "}"

RECURSIVE BlocksJSON(_)
BlocksJSON(s) ==
  IF Len(s) = 0 THEN ""
  ELSE BlockJSON(s[1]) \o (IF Len(s) > 1 THEN "," ELSE "") \o BlocksJSON(Tail(s))

JSONStringify(data) ==
  "{\"title\":\"" \o data.title \o "\",\"content\":[" \o BlocksJSON(data.content) \o "]}"

\* an equality that compares the objects themselves: the data of a render is
\* never the object of lastSavedDataRef
isEqualByReference(data, lastSaved) == FALSE

\* isEqual(data, lastSavedDataRef.current).  lastSavedDataRef holds data or
\* JSON.parse(JSON.stringify(data)); the model keeps the JSON text of the value
\* it holds, which is all isEqual reads of it.
isEqual(data, lastSaved) == JSONStringify(data) = lastSaved

\* a clearTimeout that cancels nothing
clearTimeoutNoOp(timers, handle) == timers

\* clearTimeout(saveTimeoutRef.current), skipped for null
clearTimeout(timers, handle) == {t \in timers : t.id # handle}

\* a cleanup that leaves the timer pending
effectCleanupKeepsTimer(s) == s

\* the cleanup the effect returned: it runs before the next run of the effect
\* and when the component unmounts
effectCleanup(s) == [s EXCEPT !.timers = clearTimeout(@, s.saveTimeoutRef)]

\* a body without the comparison: every render starts a timer
effectBodyNoCompare(s, data) ==
  [s EXCEPT !.timers = clearTimeout(@, s.saveTimeoutRef)
                         \cup {[id |-> s.started + 1, due |-> s.now + s.delayMs,
                                data |-> data]},
            !.saveTimeoutRef = s.started + 1,
            !.started = @ + 1]

\* the body of the effect
effectBody(s, data) ==
  IF isEqual(data, s.lastSavedDataRef)
  THEN s
  ELSE [s EXCEPT !.timers = clearTimeout(@, s.saveTimeoutRef)
                              \cup {[id |-> s.started + 1, due |-> s.now + s.delayMs,
                                     data |-> data]},
                 !.saveTimeoutRef = s.started + 1,
                 !.started = @ + 1]

\* a hook that throttles: a render leaves a pending timer alone and starts
\* none beside it
useAutoSaveThrottling(s, data) ==
  IF s.mounted /\ s.timers = {} /\ ~isEqual(data, s.lastSavedDataRef)
  THEN [s EXCEPT !.arrivedAt = s.now,
                 !.timers = {[id |-> s.started + 1, due |-> s.now + s.delayMs, data |-> data]},
                 !.saveTimeoutRef = s.started + 1,
                 !.started = @ + 1]
  ELSE [s EXCEPT !.arrivedAt = IF s.mounted THEN s.now ELSE @]

\* a render of NotionEditor with this data: the snapshot arrives at the hook
useAutoSave(s, data) ==
  IF s.mounted
  THEN effectBody(effectCleanup([s EXCEPT !.arrivedAt = s.now]), data)
  ELSE s

\* handleSave of the page: a mutation when there is a document to update
handleSave(s, data) ==
  IF s.currentDocument # Null
  THEN [s EXCEPT !.requests = Append(@, [id |-> s.currentDocument, data |-> data])]
  ELSE s

\* a callback that leaves lastSavedDataRef as it is
saveTimeoutCallbackKeepsLastSaved(s, t) ==
  [handleSave(s, t.data) EXCEPT
     !.isSaving = TRUE,
     !.saved = Append(@, [at |-> s.now, data |-> t.data, arrivedAt |-> s.arrivedAt]),
     !.savingTimeouts = @ \cup {s.now + SavingMs},
     !.saveTimeoutRef = Null,
     !.timers = @ \ {t}]

\* the callback of the save timer t
saveTimeoutCallback(s, t) ==
  [handleSave(s, t.data) EXCEPT
     !.isSaving = TRUE,
     !.saved = Append(@, [at |-> s.now, data |-> t.data, arrivedAt |-> s.arrivedAt]),
     !.lastSavedDataRef = JSONStringify(t.data),
     !.savingTimeouts = @ \cup {s.now + SavingMs},
     !.saveTimeoutRef = Null,
     !.timers = @ \ {t}]

\* the data of the render that shows the state
Data == Snapshot(session.title, blocks)

\* the editor is opened on a document with one block, or before the page has a
\* document; the first run of the effect finds data in lastSavedDataRef
InitSave ==
  \E title \in Titles, content \in Contents, delayMs \in DelayValues,
     currentDocument \in {Null, 1} :
    /\ blocks = <<[id |-> 1, type |-> "paragraph", content |-> content,
                   language |-> NoLanguage]>>
    /\ rendered = IdSeq(blocks)
    /\ pending = 0
    /\ nextId = 2
    /\ seenIds = IdsOf(blocks)
    /\ lastCreatedBlockId = Null
    /\ steps = 0
    /\ editor = NoEditor
    /\ storage = NoStorage
    /\ session = effectBody(
         [mounted |-> TRUE, title |-> title, currentDocument |-> currentDocument,
          now |-> 0, delayMs |-> delayMs, timers |-> {}, saveTimeoutRef |-> Null,
          lastSavedDataRef |-> JSONStringify(Snapshot(title, blocks)), isSaving |-> FALSE,
          savingTimeouts |-> {}, started |-> 0, arrivedAt |-> 0, requests |-> <<>>,
          saved |-> <<>>, rejected |-> FALSE],
         Snapshot(title, blocks))
    /\ last = NoOp

\* what a handler of the session leaves alone
SessionFrame ==
  UNCHANGED <<rendered, pending, nextId, seenIds, lastCreatedBlockId, editor, storage>>

\* handleTitleChange: setTitle, then the render
HandleTitleChange(newTitle) ==
  /\ session.mounted
  /\ steps < MaxSteps
  /\ newTitle # session.title
  /\ steps' = steps + 1
  /\ blocks' = blocks
  /\ session' = useAutoSave([session EXCEPT !.title = newTitle, !.rejected = FALSE],
                            Snapshot(newTitle, blocks))
  /\ last' = [NoOp EXCEPT !.op = "titleChange", !.pre = blocks]
  /\ SessionFrame

\* onUpdate of the editor of a block: updateBlock with the new content, then the render
OnUpdate(blockId, content) ==
  /\ session.mounted
  /\ steps < MaxSteps
  /\ blockId \in IdsOf(blocks)
  /\ blocks[FindIndex(blocks, blockId) + 1].content # content
  /\ steps' = steps + 1
  /\ blocks' = updateBlock(blocks, blockId, [content |-> content])
  /\ session' = useAutoSave([session EXCEPT !.rejected = FALSE],
                            Snapshot(session.title, blocks'))
  /\ last' = [NoOp EXCEPT !.op = "update", !.blockId = blockId, !.pre = blocks]
  /\ SessionFrame

\* handleDragStart: setActiveId, a render with the title and the blocks of before
HandleDragStart ==
  /\ session.mounted
  /\ steps < MaxSteps
  /\ steps' = steps + 1
  /\ blocks' = blocks
  /\ session' = useAutoSave(session, Data)
  /\ last' = [NoOp EXCEPT !.op = "dragStart", !.pre = blocks]
  /\ SessionFrame

\* the save timer t fires; setIsSaving(true) and the mutation make the
\* mounted editor render again
SaveTimeout(t) ==
  /\ t \in session.timers
  /\ t.due <= session.now
  /\ session' = useAutoSave(saveTimeoutCallback(session, t), Data)
  /\ last' = [NoOp EXCEPT !.op = "saveTimeout", !.out = t.id, !.pre = blocks]
  /\ UNCHANGED <<blocks, steps>>
  /\ SessionFrame

\* the inner timer fires: setIsSaving(false), and the render that follows
SavingTimeout(due) ==
  /\ due \in session.savingTimeouts
  /\ due <= session.now
  /\ session' = useAutoSave([session EXCEPT !.isSaving = FALSE,
                                            !.savingTimeouts = @ \ {due}], Data)
  /\ last' = [NoOp EXCEPT !.op = "savingTimeout", !.pre = blocks]
  /\ UNCHANGED <<blocks, steps>>
  /\ SessionFrame

\* the answer to the i-th update in flight: onSuccess or onError shows a toast,
\* the page renders and with it the editor
SaveSettled(i, ok) ==
  /\ i \in 1..Len(session.requests)
  /\ session' = useAutoSave(
       [session EXCEPT !.requests = SubSeq(@, 1, i - 1) \o SubSeq(@, i + 1, Len(@)),
                       !.rejected = @ \/ ~ok],
       Data)
  /\ last' = [NoOp EXCEPT !.op = IF ok THEN "saveSucceeded" ELSE "saveRejected",
                          !.pre = blocks]
  /\ UNCHANGED <<blocks, steps>>
  /\ SessionFrame

\* the editor is closed: the cleanup of the last effect runs
Unmount ==
  /\ session.mounted
  /\ session' = [effectCleanup(session) EXCEPT !.mounted = FALSE]
  /\ last' = [NoOp EXCEPT !.op = "unmount", !.out = Cardinality(session.timers),
                          !.pre = blocks]
  /\ UNCHANGED <<blocks, steps>>
  /\ SessionFrame

\* 500 ms pass; every timer that is due has fired
Tick ==
  /\ session.now < MaxTime
  /\ \A t \in session.timers : t.due > session.now
  /\ \A due \in session.savingTimeouts : due > session.now
  /\ session' = [session EXCEPT !.now = @ + 1]
  /\ UNCHANGED <<blocks, steps, last>>
  /\ SessionFrame

NextSave ==
  \/ \E newTitle \in Titles : HandleTitleChange(newTitle)
  \/ \E blockId \in BlockIds, content \in Contents : OnUpdate(blockId, content)
  \/ HandleDragStart
  \/ \E t \in session.timers : SaveTimeout(t)
  \/ \E due \in session.savingTimeouts : SavingTimeout(due)
  \/ \E i \in 1..MaxSteps, ok \in BOOLEAN : SaveSettled(i, ok)
  \/ Unmount
  \/ Tick

SpecSave == InitSave /\ [][NextSave]_vars

(* ---------------------------- MemStorage ------------------------------- *)
(* The documents of the server and the routes over them.  `storage` holds   *)
(* the Map documents, as a function from the ids it has to the documents,   *)
(* and documentIdCounter.  new Date() is the number of requests so far.     *)

\* ids above MaxDocs are never given out
MaxDocs == 2

\* values of req.params.id
IdParams == {"1", "2", "3", "4", "abc"}

\* Number(req.params.id); NaN for what is not a number
NaN == -1
Number(param) ==
  CASE param = "1" -> 1
    [] param = "2" -> 2
    [] param = "3" -> 3
    [] param = "4" -> 4
    [] OTHER -> NaN

\* values of the content column: sequences of blocks
DocContents ==
  {<<>>,
   <<[id |-> 1, type |-> "paragraph", content |-> "<p>a</p>"]>>,
   <<[id |-> 2, type |-> "heading2", content |-> "<h2>a</h2>"],
     [id |-> 1, type |-> "paragraph", content |-> "<p>a</p>"]>>}

\* an updatedAt as JSON carries it
DateString == "2026-01-01T00:00:00.000Z"

\* request bodies of PATCH
Bodies ==
  {[title |-> t] : t \in Titles}
  \cup {[content |-> c] : c \in DocContents}
  \cup {[title |-> t, content |-> c] : t \in Titles, c \in DocContents}
  \cup {[title |-> "T", userId |-> 2], [content |-> <<>>, updatedAt |-> DateString]}

\* request bodies of POST
InsertBodies == {[title |-> t, content |-> c, userId |-> 1] : t \in Titles, c \in DocContents}

\* updateDocumentSchema.partial().parse(body) throws a ZodError: updatedAt is
\* a Date in the schema, and the body has the text JSON carries for it
IsZodError(body) == "updatedAt" \in DOMAIN body /\ body.updatedAt = DateString

\* what parse returns: the picked keys of the body, the others stripped
updateDocumentSchema(body) ==
  [k \in DOMAIN body \cap {"title", "content", "updatedAt"} |-> body[k]]

\* undefined
Undefined == [id |-> Null]

\* MemStorage.getDocument
getDocument(documents, id) == IF id \in DOMAIN documents THEN documents[id] ELSE Undefined

\* an update that creates the document it does not find
updateDocumentUpserting(documents, id, updateData, now) ==
  [k \in DOMAIN documents \cup {id} |->
     IF k = id
     THEN [f \in {"id", "title", "content", "createdAt", "updatedAt", "userId"} |->
             IF f = "updatedAt" THEN now
             ELSE IF f \in DOMAIN updateData THEN updateData[f]
             ELSE IF id \in DOMAIN documents THEN documents[id][f]
             ELSE IF f = "id" THEN id
             ELSE IF f = "title" THEN "Untitled"
             ELSE IF f = "content" THEN <<>> ELSE 0]
     ELSE documents[k]]

\* an update that stores the partial in place of the document
updateDocumentReplacing(documents, id, updateData, now) ==
  IF id \notin DOMAIN documents
  THEN documents
  ELSE [documents EXCEPT ![id] =
          [f \in DOMAIN documents[id] |->
             IF f = "updatedAt" THEN now
             ELSE IF f \in DOMAIN updateData THEN updateData[f]
             ELSE IF f = "id" THEN id
             ELSE IF f = "title" THEN "Untitled"
             ELSE IF f = "content" THEN <<>> ELSE 0]]

\* MemStorage.updateDocument: the Map afterwards; the document it returns is
\* getDocument of that Map when the id was there and undefined otherwise
updateDocument(documents, id, updateData, now) ==
  IF id \notin DOMAIN documents
  THEN documents
  ELSE [documents EXCEPT ![id] =
          [f \in DOMAIN documents[id] |->
             IF f = "updatedAt" THEN now
             ELSE IF f \in DOMAIN updateData THEN updateData[f]
             ELSE documents[id][f]]]

\* MemStorage.createDocument
createDocument(documents, id, insertDocument, now) ==
  [k \in DOMAIN documents \cup {id} |->
     IF k = id
     THEN [id |-> id, title |-> insertDocument.title, content |-> insertDocument.content,
           createdAt |-> now, updatedAt |-> now, userId |-> insertDocument.userId]
     ELSE documents[k]]

\* MemStorage.deleteDocument
deleteDocument(documents, id) == [k \in DOMAIN documents \ {id} |-> documents[k]]

\* new MemStorage()
InitStorage ==
  /\ storage = [documents |-> <<>>, documentIdCounter |-> 1]
  /\ blocks = <<>>
  /\ rendered = <<>>
  /\ pending = 0
  /\ nextId = 1
  /\ seenIds = {}
  /\ lastCreatedBlockId = Null
  /\ steps = 0
  /\ editor = NoEditor
  /\ session = NoSession
  /\ last = NoOp

\* a request was handled: the answer, and what the server leaves alone
Responded(op, id, body, status, json) ==
  /\ steps < MaxSteps
  /\ steps' = steps + 1
  /\ last' = [NoOp EXCEPT !.op = op, !.blockId = id, !.out = status] @@
             [arg |-> body, json |-> json, documents |-> storage.documents]
  /\ UNCHANGED <<blocks, rendered, pending, nextId, seenIds, lastCreatedBlockId, editor,
                 session>>

\* POST /api/documents with a valid body
PostDocument(body) ==
  /\ storage.documentIdCounter <= MaxDocs
  /\ storage' = [documents |-> createDocument(storage.documents, storage.documentIdCounter,
                                             body, steps + 1),
                 documentIdCounter |-> storage.documentIdCounter + 1]
  /\ Responded("post", storage.documentIdCounter, body, 201,
               getDocument(storage'.documents, storage.documentIdCounter))

\* GET /api/documents/:id
GetDocument(idParam) ==
  LET id == Number(idParam)
      document == getDocument(storage.documents, id)
  IN /\ storage' = storage
     /\ IF id = NaN
        THEN Responded("get", id, <<>>, 400, Undefined)
        ELSE IF document = Undefined
        THEN Responded("get", id, <<>>, 404, Undefined)
        ELSE Responded("get", id, <<>>, 200, document)

\* PATCH /api/documents/:id
PatchDocument(idParam, body) ==
  LET id == Number(idParam)
  IN IF id = NaN \/ IsZodError(body)
     THEN /\ storage' = storage
          /\ Responded("patch", id, body, 400, Undefined)
     ELSE /\ storage' = [storage EXCEPT
                           !.documents = updateDocument(@, id, updateDocumentSchema(body),
                                                        steps + 1)]
          /\ IF id \in DOMAIN storage.documents
             THEN Responded("patch", id, body, 200, getDocument(storage'.documents, id))
             ELSE Responded("patch", id, body, 404, Undefined)

\* DELETE /api/documents/:id
DeleteDocument(idParam) ==
  LET id == Number(idParam)
  IN IF id = NaN
     THEN storage' = storage /\ Responded("delete", id, <<>>, 400, Undefined)
     ELSE /\ storage' = [storage EXCEPT !.documents = deleteDocument(@, id)]
          /\ Responded("delete", id, <<>>,
                       IF id \in DOMAIN storage.documents THEN 204 ELSE 404, Undefined)

\* the body of the request handleSave sends: the whole title, the whole content
\* and updatedAt: new Date(), which JSON carries as text
SaveBody(title, content) == [title |-> title, content |-> content, updatedAt |-> DateString]

\* Editor.handleSave of a session whose currentDocument has this id; the server
\* is told nothing of the session, so the saves of two sessions on one
\* document are two such requests on one id
HandleSave(id, title, content) ==
  /\ id \in DOMAIN storage.documents
  /\ PatchDocument(ToString(id), SaveBody(title, content))

NextStorage ==
  \/ \E body \in InsertBodies : PostDocument(body)
  \/ \E id \in 1..MaxDocs, title \in Titles, content \in DocContents :
       HandleSave(id, title, content)
  \/ \E idParam \in IdParams : GetDocument(idParam)
  \/ \E idParam \in IdParams, body \in Bodies : PatchDocument(idParam, body)
  \/ \E idParam \in IdParams : DeleteDocument(idParam)

SpecStorage == InitStorage /\ [][NextStorage]_vars

(* ---------------------------- Editor page ------------------------------ *)
(* The page Editor with its two mutations, over the storage of the server.  *)
(* `session` holds the state of the page: documentId of the route,          *)
(* isCreatingDocument, newDocument and document (the id of the document, or *)
(* Null), isPending of createDocumentMutation, the POST requests on their   *)
(* way to the server and the answers on their way back, and the update      *)
(* mutations handleSave has started.                                        *)

\* the body of the create request
NewDocumentBody == [title |-> "Untitled", content |-> <<>>, userId |-> 1]

\* the page shows "Loading editor..." in place of NotionEditor
IsLoadingScreen(s) ==
  \/ (s.documentId # Null /\ s.document = Null) /\ s.newDocument = Null
  \/ s.isCreatingDocument /\ s.isPending

\* an effect that does not look at isPending
createOnLoadIgnoringPending(s) ==
  IF s.isCreatingDocument /\ s.newDocument = Null
  THEN [s EXCEPT !.isPending = TRUE, !.posts = Append(@, NewDocumentBody)]
  ELSE s

\* the effect that creates a document on load: createDocumentMutation.mutate
createOnLoad(s) ==
  IF s.isCreatingDocument /\ s.newDocument = Null /\ ~s.isPending
  THEN [s EXCEPT !.isPending = TRUE, !.posts = Append(@, NewDocumentBody)]
  ELSE s

\* a render of the page: currentDocument of its handleSave is newDocument ||
\* document, and the effect runs; a mutate makes the mutation pending, which
\* renders the page again and runs the effect again
RenderEditor(s) ==
  LET rendered1 == [s EXCEPT !.currentDocument =
                               IF s.newDocument # Null THEN s.newDocument ELSE s.document]
      effect1 == createOnLoad(rendered1)
  IN IF effect1 # rendered1 THEN createOnLoad(effect1) ELSE effect1

\* the page is opened on the route of a stored document or on the route
\* without an id; the server has no document or one
InitPage ==
  \E stored \in 0..1, documentId \in {Null, 1} :
    /\ documentId # Null => stored = 1
    /\ storage = [documents |-> IF stored = 1
                                THEN createDocument(<<>>, 1, NewDocumentBody, 0)
                                ELSE <<>>,
                  documentIdCounter |-> stored + 1]
    /\ session = RenderEditor(
         [mounted |-> TRUE, documentId |-> documentId,
          isCreatingDocument |-> documentId = Null, newDocument |-> Null, document |-> Null,
          isPending |-> FALSE, posts |-> <<>>, responses |-> <<>>, currentDocument |-> Null,
          requests |-> <<>>, createdIds |-> {}, errors |-> 0])
    /\ blocks = <<NewParagraph(1)>>
    /\ rendered = IdSeq(blocks)
    /\ pending = 0
    /\ nextId = 2
    /\ seenIds = IdsOf(blocks)
    /\ lastCreatedBlockId = Null
    /\ steps = 0
    /\ editor = NoEditor
    /\ last = NoOp

\* what the page and the server leave alone
PageFrame ==
  UNCHANGED <<blocks, rendered, pending, nextId, seenIds, lastCreatedBlockId, editor>>

\* POST /api/documents: the server stores the document and answers 201
ServePost ==
  /\ Len(session.posts) > 0
  /\ storage.documentIdCounter <= MaxDocs
  /\ storage' = [documents |-> createDocument(storage.documents, storage.documentIdCounter,
                                             Head(session.posts), steps + 1),
                 documentIdCounter |-> storage.documentIdCounter + 1]
  /\ session' = [session EXCEPT
                   !.posts = Tail(@),
                   !.responses = Append(@, [ok |-> TRUE, id |-> storage.documentIdCounter]),
                   !.createdIds = @ \cup {storage.documentIdCounter}]
  /\ last' = [NoOp EXCEPT !.op = "post", !.out = 201]
  /\ UNCHANGED steps
  /\ PageFrame

\* the request fails before a document is stored: the route answers 500, or
\* the request does not reach the server
RejectPost ==
  /\ Len(session.posts) > 0
  /\ steps < MaxSteps
  /\ steps' = steps + 1
  /\ session' = [session EXCEPT !.posts = Tail(@),
                                !.responses = Append(@, [ok |-> FALSE, id |-> Null])]
  /\ last' = [NoOp EXCEPT !.op = "post", !.out = 500]
  /\ UNCHANGED storage
  /\ PageFrame

\* the answer reaches createDocumentMutation: onSuccess sets newDocument and
\* isCreatingDocument, onError shows a toast; the page renders
CreateSettled ==
  /\ Len(session.responses) > 0
  /\ LET response == Head(session.responses)
         settled == [session EXCEPT !.responses = Tail(@), !.isPending = FALSE]
     IN /\ session' = RenderEditor(
             IF response.ok
             THEN [settled EXCEPT !.newDocument = response.id, !.isCreatingDocument = FALSE]
             ELSE [settled EXCEPT !.errors = @ + 1])
        /\ last' = [NoOp EXCEPT !.op = IF response.ok THEN "createSucceeded"
                                       ELSE "createRejected"]
  /\ UNCHANGED <<storage, steps>>
  /\ PageFrame

\* the query of the page has the document of the route
QueryLoaded ==
  /\ session.documentId # Null
  /\ ~session.isCreatingDocument
  /\ session.document = Null
  /\ session.documentId \in DOMAIN storage.documents
  /\ session' = RenderEditor([session EXCEPT !.document = session.documentId])
  /\ last' = [NoOp EXCEPT !.op = "queryLoaded", !.out = 200]
  /\ UNCHANGED <<storage, steps>>
  /\ PageFrame

\* the save timer of the NotionEditor the page shows fires after a change of
\* the title: onSave is handleSave of the last render
AutoSave(title) ==
  /\ ~IsLoadingScreen(session)
  /\ steps < MaxSteps
  /\ steps' = steps + 1
  /\ session' = RenderEditor(handleSave(session, Snapshot(title, blocks)))
  /\ last' = [NoOp EXCEPT !.op = "saveTimeout"]
  /\ UNCHANGED storage
  /\ PageFrame

\* PATCH /api/documents/:id for the oldest update under way, and its answer
\* at updateDocumentMutation: a toast, and the page renders
UpdateSettled ==
  /\ Len(session.requests) > 0
  /\ LET request == Head(session.requests)
         body == SaveBody(request.data.title, request.data.content)
         status == IF IsZodError(body) THEN 400
                   ELSE IF request.id \in DOMAIN storage.documents THEN 200 ELSE 404
     IN /\ storage' = IF IsZodError(body)
                      THEN storage
                      ELSE [storage EXCEPT
                              !.documents = updateDocument(@, request.id,
                                                           updateDocumentSchema(body),
                                                           steps + 1)]
        /\ session' = RenderEditor([session EXCEPT !.requests = Tail(@)])
        /\ last' = [NoOp EXCEPT !.op = "patch", !.blockId = request.id, !.out = status]
  /\ UNCHANGED steps
  /\ PageFrame

NextPage ==
  \/ ServePost
  \/ RejectPost
  \/ CreateSettled
  \/ QueryLoaded
  \/ \E title \in Titles : AutoSave(title)
  \/ UpdateSettled

SpecPage == InitPage /\ [][NextPage]_vars

(* ---------------------------- properties ------------------------------- *)
\* position (1-based) of the block with this id in a sequence with distinct ids
Pos(s, id) == CHOOSE i \in 1..Len(s) : s[i].id = id

\* every block of pre other than `except` is in post, unchanged, and any two of
\* them are in the same order in post as in pre
KeepsOthers(pre, post, except) ==
  /\ \A i \in 1..Len(pre) :
       pre[i].id # except => \E j \in 1..Len(post) : post[j] = pre[i]
  /\ \A i, j \in 1..Len(pre) :
       (i < j /\ pre[i].id # except /\ pre[j].id # except)
         => Pos(post, pre[i].id) < Pos(post, pre[j].id)

\* C1: after any sequence of editing intents (addBlockAfter, deleteBlock through
\* backward delete, updateBlock, moveBlockToPosition, drag reorder) from the
\* initial state of a session, blocks holds at least one block.
C1_AtLeastOneBlock == Len(blocks) >= 1

\* a backward delete removed a block and left a single one
C1_Witness == last.op = "blockDeleteBackward" /\ last.out # Null /\ Len(blocks) = 1

\* C2: the ids of the blocks are pairwise distinct in every state, and the id
\* addBlockAfter gives the block it inserts was never the id of a block of this
\* document, deleted ones included.
C2_UniqueNeverReused ==
  /\ [](\A i, j \in 1..Len(blocks) : i # j => blocks[i].id # blocks[j].id)
  /\ [][\A blockId \in BlockIds, blockType \in BlockTypes :
          (last'.op = "addBlockAfter" /\ AddBlockAfter(blockId, blockType))
            => last'.out \notin seenIds]_vars

\* a block was inserted after an earlier block had been deleted
C2_Witness ==
  /\ last.op = "addBlockAfter"
  /\ last.out \in IdsOf(blocks)
  /\ seenIds \ IdsOf(blocks) # {}

\* C3: a backward delete requested for the block at index 0 of blocks leaves
\* blocks unchanged.
C3_FirstBlockNotDeleted ==
  [][\A x \in BlockIds :
       (Backspace(x) /\ FindIndex(blocks, x) = 0) => blocks' = blocks]_vars

\* C4: in every interleaving of the handlers and the renders, the block a
\* backward delete removes is not the first block of blocks at the moment it
\* is removed.
C4_RemovedBlockNeverFirst ==
  [][\A x \in BlockIds :
       (Backspace(x) /\ x \in IdsOf(blocks) /\ x \notin IdsOf(blocks'))
         => blocks[1].id # x]_vars

\* C5: deleteBlock applied to a sequence of length 1 returns it unchanged;
\* applied to a longer sequence it removes exactly the block with that id and
\* keeps the other blocks, their content and their order.
C5_DeleteBlock ==
  [][\A x \in BlockIds :
       (last'.op = "blockDeleteBackward" /\ last'.out # Null /\ Backspace(x)) =>
         /\ Len(blocks) = 1 => blocks' = blocks
         /\ Len(blocks) > 1 =>
              /\ IdsOf(blocks') = IdsOf(blocks) \ {x}
              /\ Len(blocks') = Len(blocks) - (IF x \in IdsOf(blocks) THEN 1 ELSE 0)
              /\ KeepsOthers(blocks, blocks', x)]_vars

\* deleteBlock was applied to a sequence of length 1 and left it as it was
C5_Witness ==
  /\ last.op = "blockDeleteBackward"
  /\ last.out # Null
  /\ Len(last.pre) = 1
  /\ blocks = last.pre

\* C6: addBlockAfter(blockId, blockType) with blockId at index i makes blocks
\* one longer, the new block has the id it reports and the type blockType and is
\* at index i + 1, and the blocks that were there keep their content and order.
C6_AddBlockAfter ==
  [][\A blockId \in BlockIds, blockType \in BlockTypes :
       (/\ last'.op = "addBlockAfter"
        /\ FindIndex(blocks, blockId) # -1
        /\ AddBlockAfter(blockId, blockType)) =>
         LET i == FindIndex(blocks, blockId)
         IN /\ Len(blocks') = Len(blocks) + 1
            /\ blocks'[i + 2].id = last'.out
            /\ blocks'[i + 2].type = blockType
            /\ last'.out \notin IdsOf(blocks)
            /\ blocks'[i + 1].id = blockId
            /\ KeepsOthers(blocks, blocks', Null)]_vars

\* a heading was inserted between two blocks
C6_Witness ==
  /\ last.op = "addBlockAfter"
  /\ last.blockId \in IdsOf(last.pre)
  /\ Len(blocks) = Len(last.pre) + 1
  /\ Pos(blocks, last.out) = Pos(blocks, last.blockId) + 1
  /\ Pos(blocks, last.out) < Len(blocks)
  /\ blocks[Pos(blocks, last.out)].type = "heading2"

\* C7: addBlockAfter with a blockId that no block of blocks has leaves blocks
\* unchanged.
C7_AddAfterUnknownId ==
  [][\A blockId \in BlockIds, blockType \in BlockTypes :
       (/\ last'.op = "addBlockAfter"
        /\ FindIndex(blocks, blockId) = -1
        /\ AddBlockAfter(blockId, blockType)) => blocks' = blocks]_vars

\* addBlockAfter was called for a block that had been deleted
C7_Witness ==
  /\ last.op = "addBlockAfter"
  /\ last.blockId \notin IdsOf(last.pre)
  /\ blocks = last.pre

\* C8: two addBlockAfter calls in a row for the same block of blocks insert two
\* blocks with different ids (blocks is two longer); the block of the second
\* call is right after blockId, and the block of the first call is right after it.
C8_AddTwiceSameBlock ==
  [][\A blockId \in BlockIds, blockType \in BlockTypes :
       (/\ last.op = "addBlockAfter"
        /\ last.blockId = blockId
        /\ blockId \in IdsOf(last.pre)
        /\ last'.op = "addBlockAfter"
        /\ AddBlockAfter(blockId, blockType)) =>
         /\ Len(blocks') = Len(last.pre) + 2
         /\ last'.out # last.out
         /\ {last.out, last'.out} \cap IdsOf(last.pre) = {}
         /\ Pos(blocks', last'.out) = Pos(blocks', blockId) + 1
         /\ Pos(blocks', last.out) = Pos(blocks', blockId) + 2]_vars

\* the second of two addBlockAfter calls in a row for the same block has acted
C8_Witness ==
  /\ last.op = "addBlockAfter"
  /\ last.chained
  /\ Len(blocks) = Len(last.pre) + 1

\* C9: a backward delete requested for the block at index i > 0 of blocks
\* removes exactly that block and hands focusBlockById the id of the block
\* that was at index i - 1, which is still in blocks.
C9_BackwardDeleteFocusesPrevious ==
  [][\A x \in BlockIds :
       (Backspace(x) /\ FindIndex(blocks, x) > 0) =>
         /\ x \notin IdsOf(blocks')
         /\ Len(blocks') = Len(blocks) - 1
         /\ KeepsOthers(blocks, blocks', x)
         /\ last'.out = blocks[FindIndex(blocks, x)].id
         /\ last'.out \in IdsOf(blocks')]_vars

\* C10: addBlockAfter(b) creating n, followed at once by a backward delete
\* requested for n, gives back the blocks from before the addBlockAfter and
\* hands b to focusBlockById.
C10_AddThenBackwardDelete ==
  [][\A n \in BlockIds :
       (/\ last.op = "addBlockAfter"
        /\ last.out = n
        /\ last.blockId \in IdsOf(last.pre)
        /\ Backspace(n)) =>
         /\ blocks' = last.pre
         /\ last'.out = last.blockId]_vars

\* the block an addBlockAfter had just created was deleted backward
C10_Witness ==
  /\ last.op = "blockDeleteBackward"
  /\ last.chained
  /\ last.out # Null
  /\ last.blockId \in IdsOf(last.pre)
  /\ last.blockId \notin IdsOf(blocks)

\* C11: updateBlock(blockId, updatedData) changes only the fields named in
\* updatedData of the block with that id: the length, the order and every other
\* block are unchanged, an id no block has changes nothing, and an update of
\* the type alone leaves the content of the block as it was.
C11_UpdateBlockFrame ==
  [][\A blockId \in BlockIds, updatedData \in PartialBlocks :
       (last'.op = "updateBlock" /\ ApplyUpdateBlock(blockId, updatedData)) =>
         /\ Len(blocks') = Len(blocks)
         /\ \A i \in 1..Len(blocks) :
              /\ blocks'[i].id = blocks[i].id
              /\ blocks[i].id # blockId => blocks'[i] = blocks[i]
              /\ \A f \in DOMAIN blocks[i] :
                   f \notin DOMAIN updatedData => blocks'[i][f] = blocks[i][f]
              /\ \A f \in DOMAIN updatedData :
                   blocks[i].id = blockId => blocks'[i][f] = updatedData[f]
         /\ blockId \notin IdsOf(blocks) => blocks' = blocks]_vars

\* the type of a block with text, one of several blocks, was changed and its
\* content kept
C11_Witness ==
  /\ last.op = "updateBlock"
  /\ last.blockId \in IdsOf(last.pre)
  /\ Len(blocks) > 1
  /\ LET i == Pos(blocks, last.blockId)
     IN /\ blocks[i].type # last.pre[i].type
        /\ blocks[i].content = last.pre[i].content
        /\ ~IsEmptyContent(blocks[i].content)

\* C12: moveBlockToPosition(blockId, targetPosition) with blockId in the
\* sequence and 0 <= targetPosition < length gives a sequence with that block,
\* unchanged, at index targetPosition and the other blocks in the order they had.
C12_MoveToPosition ==
  [][\A blockId \in BlockIds, targetPosition \in -1..(MaxIds + 1) :
       (/\ last'.op = "moveBlockToPosition"
        /\ blockId \in IdsOf(blocks)
        /\ 0 <= targetPosition
        /\ targetPosition < Len(blocks)
        /\ ApplyMoveBlockToPosition(blockId, targetPosition)) =>
         /\ Len(blocks') = Len(blocks)
         /\ blocks'[targetPosition + 1] = blocks[Pos(blocks, blockId)]
         /\ KeepsOthers(blocks, blocks', blockId)]_vars

\* a block was moved forward, past the index it was removed from
C12_Witness ==
  /\ last.op = "moveBlockToPosition"
  /\ last.blockId \in IdsOf(last.pre)
  /\ last.out < Len(last.pre)
  /\ Pos(last.pre, last.blockId) + 1 < last.out + 1
  /\ Pos(blocks, last.blockId) = last.out + 1

\* C13: moveBlockToPosition with a target position below 0 or at or beyond the
\* length, or with an id no block has, returns the sequence unchanged.
C13_MoveInvalidIsNoOp ==
  [][\A blockId \in BlockIds, targetPosition \in -1..(MaxIds + 1) :
       (/\ last'.op = "moveBlockToPosition"
        /\ \/ targetPosition < 0
           \/ targetPosition >= Len(blocks)
           \/ blockId \notin IdsOf(blocks)
        /\ ApplyMoveBlockToPosition(blockId, targetPosition)) => blocks' = blocks]_vars

\* a block of the sequence was to move to the index just past the end
C13_Witness ==
  /\ last.op = "moveBlockToPosition"
  /\ last.blockId \in IdsOf(last.pre)
  /\ Pos(last.pre, last.blockId) < Len(last.pre)
  /\ last.out = Len(last.pre)
  /\ blocks = last.pre

\* C14: handleDragEnd with the dragged id and the target id both in the
\* sequence and different puts the dragged block at the index the target block
\* had, the others keeping their order: on [A,B,C], A over B gives [B,A,C] and
\* A over C gives [B,C,A].
C14_DragLandsOnTargetIndex ==
  [][\A activeId \in BlockIds, overId \in BlockIds :
       (/\ last'.op = "handleDragEnd"
        /\ activeId \in IdsOf(blocks)
        /\ overId \in IdsOf(blocks)
        /\ ApplyHandleDragEnd(activeId, overId)) =>
         /\ Len(blocks') = Len(blocks)
         /\ blocks'[Pos(blocks, overId)] = blocks[Pos(blocks, activeId)]
         /\ KeepsOthers(blocks, blocks', activeId)
         /\ (Len(blocks) = 3 /\ activeId = blocks[1].id /\ overId = blocks[2].id)
              => blocks' = <<blocks[2], blocks[1], blocks[3]>>
         /\ (Len(blocks) = 3 /\ activeId = blocks[1].id /\ overId = blocks[3].id)
              => blocks' = <<blocks[2], blocks[3], blocks[1]>>]_vars

\* on [A,B,C], A was dragged over C
C14_Witness ==
  /\ last.op = "handleDragEnd"
  /\ Len(last.pre) = 3
  /\ last.blockId = last.pre[1].id
  /\ last.out = last.pre[3].id
  /\ blocks = <<last.pre[2], last.pre[3], last.pre[1]>>

\* C15: handleDragEnd with a dragged id or a target id that no block of the
\* current sequence has leaves the sequence unchanged.
C15_StaleDragIsNoOp ==
  [][\A activeId \in BlockIds, overId \in BlockIds :
       (/\ last'.op = "handleDragEnd"
        /\ activeId \notin IdsOf(blocks) \/ overId \notin IdsOf(blocks)
        /\ HandleDragEnd(activeId, overId)) => blocks' = blocks]_vars

\* the text of the block as the user sees it: its textblocks, separated
BlockText(doc) == JoinLines(Textblocks(doc), BlockSeparator)

\* the block of the TextBlock that has the focus
FocusedBlock(s) == s[Pos(s, editor.blockId)]

\* the editor holds one paragraph or one heading
InTextblock(doc) == Len(doc) = 1 /\ doc[1].type \in {"paragraph", "heading"}

\* the cursor is in a list item
InListItem(doc) == IsList(doc[Len(doc)])

LastLine(doc) == doc[Len(doc)].lines[Len(doc[Len(doc)].lines)]

\* the text of the block, trimmed and in lower case, is a trigger
IsCommandText(doc) == SlashCommand(ToLowerCase(Trim(BlockText(doc)))) # NoCommand

C17_UnknownCommandIsNoOp ==
  [][\A isDoubleEnter \in BOOLEAN :
       (/\ last'.op = "pressEnter"
        /\ StartsWithSlash(BlockText(editor.doc))
        /\ ~IsCommandText(editor.doc)
        /\ PressEnter(isDoubleEnter)) => blocks' = blocks]_vars

\* C18: a single Enter in an empty list item of a list block adds no block and
\* leaves the block with the type paragraph.
C18_EnterOnEmptyListItem ==
  [][(/\ last'.op = "pressEnter"
      /\ InListItem(editor.doc)
      /\ LastLine(editor.doc) = <<>>
      /\ FocusedBlock(blocks).type \in {"bulletList", "orderedList"}
      /\ PressEnter(FALSE)) =>
        /\ Len(blocks') = Len(blocks)
        /\ FocusedBlock(blocks').type = "paragraph"]_vars

C20_ConvertKeepsText ==
  [][\A type \in FormatTypes :
       (/\ last'.op = "formatSelect"
        /\ Len(Textblocks(editor.doc)) = 1
        /\ Trim(BlockText(editor.doc)) # <<>>
        /\ \A i \in 1..Len(BlockText(editor.doc)) : BlockText(editor.doc)[i] # "\n"
        /\ FormatSelect(type)) =>
         /\ FocusedBlock(blocks').type = type
         /\ Trim(BlockText(editor'.doc)) = Trim(BlockText(editor.doc))
         /\ Len(blocks') = Len(blocks)
         /\ \A i \in 1..Len(blocks) :
              blocks[i].id # editor.blockId => blocks'[i] = blocks[i]]_vars

\* the types handleFormatSelect has no case for
UnsupportedTypes == formatOptions \ FormatTypes

\* C21: handleFormatSelect with a type it has no case for (heading1, markdown,
\* numberedList, dashedList) leaves the block with the type paragraph.
C21_UnsupportedTypeFallsBack ==
  [][\A type \in UnsupportedTypes :
       (last'.op = "formatSelect" /\ FormatSelect(type)) =>
         FocusedBlock(blocks').type = "paragraph"]_vars

\* C22: in every state a block has a language only if its type is code, also
\* after a code block with a language was converted to another type.
C22_LanguageOnlyOnCode ==
  \A i \in 1..Len(blocks) : blocks[i].language # NoLanguage => blocks[i].type = "code"

\* the snapshot of the state has the JSON text of the one saved last
SnapshotIsSaved == JSONStringify(Data) = session.lastSavedDataRef

\* C23: a save fires exactly one delay after the last snapshot arrived at the
\* hook and carries that snapshot, and it is the only save for the burst: no
\* timer is left pending behind it.  While a timer is pending it is the one
\* of the last snapshot.
C23_TrailingDebounce ==
  /\ [](\A t \in session.timers :
          t.due = session.arrivedAt + session.delayMs /\ t.data = Data)
  /\ [][\A t \in session.timers :
          (last'.op = "saveTimeout" /\ SaveTimeout(t)) =>
            /\ session.now = session.arrivedAt + session.delayMs
            /\ session'.saved = Append(session.saved,
                                       [at |-> session.now, data |-> Data,
                                        arrivedAt |-> session.arrivedAt])
            /\ session'.timers = {}]_vars

\* three snapshots that differ arrived at 0, 500 and 1000 ms with a delay of
\* 2000 ms: the one save fired at 3000 ms with the third
C23_Witness ==
  /\ session.delayMs = 4
  /\ last.op = "saveTimeout"
  /\ steps = 3
  /\ session.started = 3
  /\ Len(session.saved) = 1
  /\ session.saved[1].at = 6
  /\ session.saved[1].arrivedAt = 2
  /\ session.saved[1].data = Data

\* C24: no save fires while the snapshot is equal to the last saved one: not
\* for the first snapshot of the session, and not after the snapshot changed
\* and came back to the last saved value before the timer fired.
C24_EqualSnapshotNotSaved ==
  /\ [](SnapshotIsSaved => session.timers = {})
  /\ [][\A t \in session.timers :
          (last'.op = "saveTimeout" /\ SaveTimeout(t)) =>
            ~SnapshotIsSaved]_vars

\* the snapshot changed and came back, time went on past the delay, nothing
\* was saved
C24_Witness ==
  /\ session.mounted
  /\ session.started = 1
  /\ steps = 2
  /\ session.now > session.arrivedAt + session.delayMs
  /\ SnapshotIsSaved
  /\ session.saved = <<>>

\* C25: at most one save timer is pending in every state, and a step that
\* starts a timer leaves no timer pending but the one it started.
C25_OneTimer ==
  /\ [](Cardinality(session.timers) <= 1)
  /\ [][session'.started # session.started =>
          \A t \in session'.timers : t.id = session'.started]_vars

\* a second timer was started while the first was pending
C25_Witness ==
  /\ session.started = 2
  /\ steps = 2
  /\ session.saved = <<>>
  /\ Cardinality(session.timers) = 1

\* C26: after the editor was closed the save callback is not invoked.
C26_NoSaveAfterUnmount ==
  /\ [](~session.mounted => session.timers = {})
  /\ [][~session.mounted => session'.saved = session.saved]_vars

\* the editor was closed with a timer pending and time went past its due time
C26_Witness ==
  /\ ~session.mounted
  /\ last.op = "unmount"
  /\ last.out = 1
  /\ session.now > session.arrivedAt + session.delayMs
  /\ session.saved = <<>>

\* C27: the timer that fires invokes the save callback once, with the current
\* title and blocks, and lastSavedDataRef is that snapshot in the same step;
\* after a save was rejected no timer is pending unless the snapshot differs
\* from the one saved last.
C27_FireSavesCurrent ==
  [][/\ \A t \in session.timers :
          (last'.op = "saveTimeout" /\ SaveTimeout(t)) =>
            /\ Len(session'.saved) = Len(session.saved) + 1
            /\ session'.saved[Len(session'.saved)].data = Snapshot(session.title, blocks)
            /\ session'.lastSavedDataRef = JSONStringify(Snapshot(session.title, blocks))
     /\ \A i \in 1..MaxSteps :
          (last'.op = "saveRejected" /\ SaveSettled(i, FALSE)
             /\ SnapshotIsSaved) =>
            session'.timers = {}]_vars

\* a save was rejected, time went on and no timer is pending to repeat it
C27_Witness ==
  /\ session.mounted
  /\ session.rejected
  /\ last.op = "saveRejected"
  /\ Len(session.saved) = 1
  /\ session.requests = <<>>
  /\ session.now > session.saved[1].at
  /\ session.timers = {}
  /\ session.lastSavedDataRef = JSONStringify(Data)

\* an edit of the open editor
IsEdit ==
  \/ \E newTitle \in Titles : HandleTitleChange(newTitle)
  \/ \E blockId \in BlockIds, content \in Contents : OnUpdate(blockId, content)

\* C28: a rejected update leaves title and blocks as they are, and the first
\* edit after it leaves a save timer pending that carries the title and the
\* blocks of after the edit.
C28_RetryOnNextEdit ==
  [][/\ \A i \in 1..MaxSteps :
          (last'.op = "saveRejected" /\ SaveSettled(i, FALSE)) =>
            session'.title = session.title /\ blocks' = blocks
     /\ (session.rejected /\ last'.op \in {"titleChange", "update"} /\ IsEdit) =>
          \E t \in session'.timers : t.data = Snapshot(session'.title, blocks')]_vars

\* C29: a PATCH with a number for an id the storage does not have, and a body
\* the schema accepts, is answered with 404 and leaves the storage as it was:
\* no document is created and none is changed.
C29_UpdateUnknownId ==
  [][\A idParam \in IdParams, body \in Bodies :
       (/\ last'.op = "patch"
        /\ Number(idParam) # NaN
        /\ Number(idParam) \notin DOMAIN storage.documents
        /\ ~IsZodError(body)
        /\ PatchDocument(idParam, body)) =>
         /\ last'.out = 404
         /\ last'.json = Undefined
         /\ storage' = storage]_vars

\* an update of an unknown id was answered with 404 while the storage has documents
C29_Witness ==
  /\ last.op = "patch"
  /\ last.out = 404
  /\ "content" \in DOMAIN last.arg
  /\ DOMAIN storage.documents # {}
  /\ storage.documents = last.documents

\* C30: after a PATCH that succeeded the document has the content of the
\* body, block for block, and a title or a content that the body leaves out is
\* the stored one; GET returns the document as it is stored.
C30_ContentRoundTrip ==
  [][/\ \A idParam \in IdParams, body \in Bodies :
          (last'.op = "patch" /\ PatchDocument(idParam, body) /\ last'.out = 200) =>
            LET before == storage.documents[Number(idParam)]
                after == getDocument(storage'.documents, Number(idParam))
            IN /\ after.content = IF "content" \in DOMAIN body THEN body.content
                                  ELSE before.content
               /\ after.title = IF "title" \in DOMAIN body THEN body.title ELSE before.title
     /\ \A idParam \in IdParams :
          (last'.op = "get" /\ GetDocument(idParam) /\ last'.out = 200) =>
            last'.json = storage.documents[Number(idParam)]]_vars

\* a content of two blocks was stored by a PATCH without a title, and GET
\* returns it with the title of before
C30_Witness ==
  /\ last.op = "get"
  /\ last.out = 200
  /\ Len(last.json.content) = 2
  /\ last.json.content[1].id = 2
  /\ last.json.title = "T"
  /\ last.json.updatedAt > last.json.createdAt
  /\ steps = 3

\* the request was one that handleSave sends
IsSave(op) == op.op = "patch" /\ DOMAIN op.arg = {"title", "content", "updatedAt"}

\* C31: when a save of one session on a document is followed by a save of
\* another on the same document, the stored title and content are then the
\* whole title and content of the second save.
C31_LastWriteWins ==
  [][\A id \in 1..MaxDocs, title \in Titles, content \in DocContents :
       (/\ IsSave(last)
        /\ last.blockId = id
        /\ HandleSave(id, title, content)) =>
         /\ storage'.documents[id].title = title
         /\ storage'.documents[id].content = content]_vars

\* C32: a session opened without a content or with an empty one starts with
\* one paragraph block whose content is empty; a session opened with a
\* content of at least one block starts with the blocks of that content.
C32_InitialBlocks ==
  last.op = "init" =>
    IF Len(last.pre) = 0
    THEN /\ Len(blocks) = 1
         /\ blocks[1].type = "paragraph"
         /\ IsEmptyContent(blocks[1].content)
    ELSE blocks = last.pre

\* a session was opened with a content of two blocks, the first with text
C32_Witness ==
  /\ last.op = "init"
  /\ Len(last.pre) = 2
  /\ last.pre[1].content = "<p>a</p>"
  /\ Len(blocks) = 2

\* C33: whenever addBlockAfter sets lastCreatedBlockId, the focus target, to
\* an id, blocks has a block with that id, also when the blockId it was
\* called with is not in blocks.
C33_FocusTargetPresent ==
  [][\A blockId \in BlockIds, blockType \in BlockTypes :
       (/\ last'.op = "addBlockAfter"
        /\ AddBlockAfter(blockId, blockType)
        /\ lastCreatedBlockId' # Null) =>
         lastCreatedBlockId' \in IdsOf(blocks')]_vars

\* the blocks other than the one with this id are the same, in the same places
SameElsewhere(pre, post, id) ==
  /\ Len(post) = Len(pre)
  /\ \A i \in 1..Len(pre) : pre[i].id # id => post[i] = pre[i]

\* C34: Enter on a recognized slash command inserts no block: blocks keeps its
\* length, and no block other than the one with the command changes.
C34_CommandInsertsNoBlock ==
  [][\A isDoubleEnter \in BOOLEAN :
       (/\ last'.op = "pressEnter"
        /\ PressEnter(isDoubleEnter)
        /\ last'.arg # NoCommand) =>
         SameElsewhere(blocks, blocks', editor.blockId)]_vars

\* the cursor is in a code block or in a list
InCodeOrList(doc) == doc[Len(doc)].type = "codeBlock" \/ IsList(doc[Len(doc)])

\* post is pre with one empty paragraph with the id newId right after the block
\* with the id `id`; the block with `id` itself may have changed
InsertedAfter(pre, post, id, newId) ==
  LET i == Pos(pre, id)
  IN /\ Len(post) = Len(pre) + 1
     /\ post[i + 1] = NewParagraph(newId)
     /\ newId \notin IdsOf(pre)
     /\ post[i].id = id
     /\ \A j \in 1..Len(pre) : j < i => post[j] = pre[j]
     /\ \A j \in 1..Len(pre) : j > i => post[j + 1] = pre[j]

\* C35: one Enter in the TextBlock that has the focus, whose block is not a
\* code block, with the cursor neither in a code block nor in a list, and
\* which is not inside the window of an earlier Enter or command, inserts
\* exactly one block: an empty paragraph right after the focused block,
\* however many other TextBlocks are mounted and hear the event.
C35_OneEnterOneBlock ==
  [][\A isDoubleEnter \in BOOLEAN :
       (/\ last'.op = "pressEnter"
        /\ ~editor.isAddingBlock
        /\ ~editor.isProcessingCommand
        /\ FocusedBlock(blocks).type # "code"
        /\ ~InCodeOrList(editor.doc)
        /\ PressEnter(isDoubleEnter)) =>
         /\ InsertedAfter(blocks, blocks', editor.blockId, last'.out)
         /\ lastCreatedBlockId' = last'.out]_vars

\* an Enter in a block with another mounted block after it inserted one block
\* between the two
C35_Witness ==
  /\ last.op = "pressEnter"
  /\ last.out # Null
  /\ Len(last.pre) = 2
  /\ last.blockId = last.pre[1].id
  /\ Len(blocks) = 3
  /\ blocks[2].id = last.out
  /\ blocks[3] = last.pre[2]

\* C36: an Enter that inserts a block sets isAddingBlock of its TextBlock;
\* while it is set, an Enter in that TextBlock inserts nothing and reports no
\* focus target; the timer resets it, and an Enter after that is handled as
\* one outside the window: it inserts when the TextBlock is not processing a
\* command, its block is not a code block and the cursor is neither in a code
\* block nor in a list.
C36_AddingBlockWindow ==
  [][/\ \A isDoubleEnter \in BOOLEAN :
          (last'.op = "pressEnter" /\ PressEnter(isDoubleEnter)) =>
            /\ last'.out # Null => editor'.isAddingBlock
            /\ editor.isAddingBlock =>
                 /\ SameElsewhere(blocks, blocks', editor.blockId)
                 /\ last'.out = Null
                 /\ lastCreatedBlockId' = lastCreatedBlockId
            /\ (/\ ~editor.isAddingBlock
                /\ last.op = "pressEnter"
                /\ last.ignored
                /\ ~editor.isProcessingCommand
                /\ FocusedBlock(blocks).type # "code"
                /\ ~InCodeOrList(editor.doc)) =>
                 Len(blocks') = Len(blocks) + 1
     /\ AddingBlockTimeout => ~editor'.isAddingBlock]_vars

\* an Enter inside the window was ignored, the flag was reset, and the next
\* Enter inserted a block
C36_Witness ==
  /\ last.op = "pressEnter"
  /\ last.chained
  /\ last.out # Null
  /\ Len(blocks) = Len(last.pre) + 1

\* post has the blocks of pre, each once, in some order
IsPermutation(pre, post) ==
  /\ Len(post) = Len(pre)
  /\ \A i \in 1..Len(pre) : Cardinality({j \in 1..Len(post) : post[j] = pre[i]}) = 1

\* C37: moveBlockToPosition and handleDragEnd, with any block id, known or
\* not, and any target position or target id, leave blocks a permutation of
\* what it was: the same length, the same ids, each block with its content.
C37_ReorderIsPermutation ==
  [][last'.op \in {"moveBlockToPosition", "handleDragEnd"} =>
       /\ IsPermutation(blocks, blocks')
       /\ IdsOf(blocks') = IdsOf(blocks)]_vars

\* a drag whose dragged id no block has changed the order of two blocks
C37_Witness ==
  /\ last.op = "handleDragEnd"
  /\ last.blockId \notin IdsOf(last.pre)
  /\ Len(last.pre) = 2
  /\ blocks # last.pre
  /\ IsPermutation(last.pre, blocks)

\* C38: in every state of a mounted editor (each is one where the effect of
\* the last render has run), a save timer is pending exactly when the
\* snapshot of title and blocks differs from the value of lastSavedDataRef.
C38_TimerIffUnsaved ==
  session.mounted => ((session.timers # {}) <=> ~SnapshotIsSaved)

\* a save went out and left nothing pending; an edit after it, while isSaving
\* is still set, made the snapshot differ again and a timer is pending
C38_Witness ==
  /\ session.mounted
  /\ Len(session.saved) = 1
  /\ session.timers # {}
  /\ ~SnapshotIsSaved
  /\ session.isSaving

====
